---- MODULE Spec2Model ----
(***************************************************************************)
(* A model of everylot/everylot.py (class EveryLot): the record selector   *)
(* and the publication marker over the shared "lots" table, the camera     *)
(* aimer, the street-level location resolver and the overlay paths of the  *)
(* map snapshot.                                                           *)
(*                                                                         *)
(* Values.  A Python / SQLite value is a record whose single field names   *)
(* its kind, so that values of different kinds are never confused:         *)
(*   None (SQL NULL)            [none |-> TRUE]                            *)
(*   a number n                 [num |-> n]                                *)
(*   a text that spells n       [numeral |-> n]   (float() accepts it)     *)
(*   any other text w           [text |-> w]      (float() rejects it)     *)
(* A row of the table and self.lot are functions from column names to      *)
(* values; a column the table does not have is a key missing from DOMAIN.  *)
(* Floor counts are counted in tenths (3 floors = 30), latitudes and       *)
(* longitudes in thousandths of a degree (0.007 = 7).                      *)
(***************************************************************************)
EXTENDS Integers, Sequences, FiniteSets, TLC

VARIABLES
    table,      \* the lots table: id -> row (ids are unique)
    pc,         \* per invocation: "start", "loaded", "failed", "done"
    id_,        \* per invocation: the id_ argument given to __init__
    lot,        \* per invocation: self.lot (None before it is set)
    status_id,  \* per invocation: the argument given to mark_as_tweeted
    raised,     \* per invocation: the exception __init__ raised, or "none"
    log,        \* the statements executed on the table, in order
    camLot,     \* aim_camera: the lot it reads
    camOut,     \* aim_camera: its outcome (None before the call)
    locFormat,  \* streetviewable_location: fields named by search_format
    locLot,     \* streetviewable_location: the lot it reads
    locResp,    \* streetviewable_location: what the geocoding request did
    locOut,     \* streetviewable_location: its outcome (None before the call)
    locCalls,   \* streetviewable_location: geocoding requests made
    mapShape,   \* get_maps_image: the decoded geometry of the lot
    mapOut      \* get_maps_image: its overlay paths (None before the call)

storageVars == <<table, pc, id_, lot, status_id, raised, log>>
camVars == <<camLot, camOut>>
locVars == <<locFormat, locLot, locResp, locOut, locCalls>>
mapVars == <<mapShape, mapOut>>
vars == <<storageVars, camVars, locVars, mapVars>>

---------------------------------------------------------------------------
(* Bounds *)

\* ids of the table are 0..MaxId
MaxId == 2
\* post identifiers are 0..MaxStatus
MaxStatus == 2
\* statements a serialized sequence of runs may log
MaxLog == 8
\* floor counts go up to MaxFloors
MaxFloors == 12
\* holes per polygon
MaxHoles == 3
\* polygons per multi-polygon
MaxPolys == 3

---------------------------------------------------------------------------
(* Values *)

None == [none |-> TRUE]
Num(n) == [num |-> n]
Numeral(n) == [numeral |-> n]
Text(w) == [text |-> w]
IsNum(v) == DOMAIN v = {"num"}
IsNumeral(v) == DOMAIN v = {"numeral"}
IsText(v) == DOMAIN v = {"text"}

Min(S) == CHOOSE x \in S : \A y \in S : x <= y

\* Python truthiness of an argument: None and 0 are false
Truthy(v) == IF IsNum(v) THEN v.num # 0 ELSE v # None

\* SQL "column = ?": NULL equals nothing
SqlEq(a, b) == IsNum(a) /\ IsNum(b) /\ a.num = b.num

\* str.format of one value
Repr(v) == IF v = None THEN Text("None") ELSE v

---------------------------------------------------------------------------
(* The lots table, the record selector and the publication marker *)

Procs == {"p1", "p2"}
Ids == 0 .. MaxId
Statuses == {Num(n) : n \in 0 .. MaxStatus}
\* the flags a table starts with: absent (NULL), 0, or a post identifier
Flags == {None, Num(0), Num(1)}
IdArgs == {None} \cup {Num(i) : i \in Ids}

Row(i, t) == [id |-> Num(i), tweeted |-> t, address |-> Text(<<"lot", i>>)]
Tables == UNION {[S -> Flags] : S \in SUBSET Ids}
TableOf(f) == [i \in DOMAIN f |-> Row(i, f[i])]

\* SELECT * FROM lots where {field} = ? ORDER BY id ASC LIMIT 1, then fetchone()
QUERY(tbl, field, value) ==
    LET hits == {i \in DOMAIN tbl : SqlEq(tbl[i][field], value)}
    IN  IF hits = {} THEN None ELSE tbl[Min(hits)]

\* the field and value __init__ searches by
SearchField(a) == IF Truthy(a) THEN "id" ELSE "tweeted"
SearchValue(a) == IF Truthy(a) THEN a ELSE Num(0)

\* mutant: the UPDATE without its WHERE clause
UpdateTweetedEveryRow(tbl, s, i) ==
    [j \in DOMAIN tbl |-> [tbl[j] EXCEPT !.tweeted = s]]

\* mutant: the UPDATE made conditional on the flag still being 0
UpdateTweetedIfUnset(tbl, s, i) ==
    [j \in DOMAIN tbl |->
        IF SqlEq(tbl[j].id, i) /\ SqlEq(tbl[j].tweeted, Num(0))
        THEN [tbl[j] EXCEPT !.tweeted = s] ELSE tbl[j]]

\* UPDATE lots SET tweeted = ? WHERE id = ?
UpdateTweeted(tbl, s, i) ==
    [j \in DOMAIN tbl |->
        IF SqlEq(tbl[j].id, i) THEN [tbl[j] EXCEPT !.tweeted = s] ELSE tbl[j]]

\* EveryLot(database, id_=a): dict(zip(keys, None)) raises TypeError
Construct(p, a) ==
    /\ pc[p] = "start"
    /\ id_' = [id_ EXCEPT ![p] = a]
    /\ LET row == QUERY(table, SearchField(a), SearchValue(a))
       IN  IF row = None
           THEN /\ pc' = [pc EXCEPT ![p] = "failed"]
                /\ raised' = [raised EXCEPT ![p] = "TypeError"]
                /\ lot' = lot
                /\ log' = Append(log, [op |-> "select", by |-> p, row |-> None])
           ELSE /\ pc' = [pc EXCEPT ![p] = "loaded"]
                /\ raised' = raised
                /\ lot' = [lot EXCEPT ![p] = row]
                /\ log' = Append(log, [op |-> "select", by |-> p, row |-> row.id])
    /\ UNCHANGED <<table, status_id, camVars, locVars, mapVars>>

\* mark_as_tweeted(s): the UPDATE and the commit
MarkAsTweeted(p, s) ==
    /\ pc[p] = "loaded"
    /\ table' = UpdateTweeted(table, s, lot[p].id)
    /\ status_id' = [status_id EXCEPT ![p] = s]
    /\ pc' = [pc EXCEPT ![p] = "done"]
    /\ log' = Append(log, [op |-> "update", by |-> p, row |-> lot[p].id, to |-> s])
    /\ UNCHANGED <<id_, lot, raised, camVars, locVars, mapVars>>

StorageIdle ==
    /\ pc = [p \in Procs |-> "start"]
    /\ id_ = [p \in Procs |-> None]
    /\ lot = [p \in Procs |-> None]
    /\ status_id = [p \in Procs |-> None]
    /\ raised = [p \in Procs |-> "none"]
    /\ log = <<>>

CamIdle == camLot = None /\ camOut = None
LocIdle == locFormat = {} /\ locLot = None /\ locResp = None /\ locOut = None /\ locCalls = 0
MapIdle == mapShape = None /\ mapOut = None

Init ==
    /\ table \in {TableOf(f) : f \in Tables}
    /\ StorageIdle
    /\ CamIdle /\ LocIdle /\ MapIdle

Next ==
    \/ \E p \in Procs, a \in IdArgs : Construct(p, a)
    \/ \E p \in Procs, s \in Statuses : MarkAsTweeted(p, s)

\* two invocations, each run once, interleaved freely
Spec == Init /\ [][Next]_vars

---------------------------------------------------------------------------
(* Serialized runs: one invocation at a time, each without an identifier, *)
(* each ending with mark_as_tweeted of a non-zero post identifier         *)

SerialConstruct(p) ==
    /\ \A q \in Procs : pc[q] = "start"
    /\ Len(log) < MaxLog
    /\ Construct(p, None)

SerialMark(p, s) ==
    /\ s # Num(0)
    /\ Len(log) < MaxLog
    /\ MarkAsTweeted(p, s)

\* the process ends; the next invocation starts afresh
Exit(p) ==
    /\ pc[p] \in {"done", "failed"}
    /\ pc' = [pc EXCEPT ![p] = "start"]
    /\ id_' = [id_ EXCEPT ![p] = None]
    /\ lot' = [lot EXCEPT ![p] = None]
    /\ status_id' = [status_id EXCEPT ![p] = None]
    /\ raised' = [raised EXCEPT ![p] = "none"]
    /\ UNCHANGED <<table, log, camVars, locVars, mapVars>>

NextSerial ==
    \/ \E p \in Procs : SerialConstruct(p)
    \/ \E p \in Procs, s \in Statuses : SerialMark(p, s)
    \/ \E p \in Procs : Exit(p)

SpecSerial == Init /\ [][NextSerial]_vars

---------------------------------------------------------------------------
(* Claims about the record selector and the publication marker *)

\* the publication flag counts as unset when it is 0 or absent (NULL)
Unset(t) == t = None \/ t = Num(0)

Loaded(p) == pc[p] \in {"loaded", "done"}
Selects == {k \in 1 .. Len(log) : log[k].op = "select"}
Loads == {k \in Selects : log[k].row # None}
Updates == {k \in 1 .. Len(log) : log[k].op = "update"}

\* C1: constructing with an explicit identifier loads the record with that
\* id; constructing with no identifier loads the record with the lowest id
\* among the records whose publication flag is unset (0 or absent).
C1_SelectsRecord ==
    [][\A p \in Procs : (pc[p] = "start" /\ pc'[p] = "loaded") =>
          IF id_'[p] # None
          THEN lot'[p].id = id_'[p]
          ELSE LET unset == {i \in DOMAIN table : Unset(table[i].tweeted)}
               IN  lot'[p] = table[Min(unset)]]_vars

\* C2: mark_as_tweeted(s) on the loaded record i makes a select by id i
\* show flag s, leaves every other record and every other column of i as
\* they were, and nothing else changes the table.
C2_MarkFrame ==
    [][/\ \A p \in Procs : (pc[p] = "loaded" /\ pc'[p] = "done") =>
             LET i == lot[p].id.num
             IN  /\ QUERY(table', "id", Num(i)).tweeted = status_id'[p]
                 /\ DOMAIN table' = DOMAIN table
                 /\ \A j \in DOMAIN table \ {i} : table'[j] = table[j]
                 /\ DOMAIN table'[i] = DOMAIN table[i]
                 /\ \A c \in DOMAIN table[i] \ {"tweeted"} :
                        table'[i][c] = table[i][c]
       /\ table' # table =>
             \E p \in Procs : pc[p] = "loaded" /\ pc'[p] = "done"]_vars

\* C2 witness: a mark that changed the flag of its record, beside another
\* record of the table.
C2_Marked ==
    \E p \in Procs :
        /\ pc[p] = "done"
        /\ status_id[p] # lot[p].tweeted
        /\ table[lot[p].id.num].tweeted = status_id[p]
        /\ Cardinality(DOMAIN table) > 1

\* the statement the claim gives for a selection no row matches
NoRowMatches(tbl, a) ==
    IF a # None
    THEN \A i \in DOMAIN tbl : tbl[i].id # a
    ELSE \A i \in DOMAIN tbl : ~Unset(tbl[i].tweeted)

\* C7: when no row matches the selection, constructing fails with
\* NotFoundError, loads no record and leaves the table unchanged.
C7_NotFound ==
    [][\A p \in Procs :
          (pc[p] = "start" /\ pc'[p] # "start" /\ NoRowMatches(table, id_'[p])) =>
              /\ pc'[p] = "failed"
              /\ raised'[p] = "NotFoundError"
              /\ lot'[p] = None
              /\ table' = table]_vars

\* both invocations ran without an identifier and both selects are logged
\* before any update
Raced(p, q) ==
    /\ p # q
    /\ Loaded(p) /\ Loaded(q)
    /\ ~Truthy(id_[p]) /\ ~Truthy(id_[q])
    /\ \A k \in Selects : \A u \in Updates : k < u

\* C9: two concurrent invocations without an identifier whose selects both
\* precede either mark hold the same record; once both have marked it, the
\* record was updated twice and its flag is the last writer's identifier.
C9_Race ==
    \A p, q \in Procs : Raced(p, q) =>
        /\ lot[p].id = lot[q].id
        /\ (pc[p] = "done" /\ pc[q] = "done") =>
              /\ Cardinality({u \in Updates : log[u].row = lot[p].id}) = 2
              /\ table[lot[p].id.num].tweeted = log[Len(log)].to

\* C9 witness: the record published twice, under two different identifiers.
C9_PublishedTwice ==
    \E p, q \in Procs :
        /\ Raced(p, q)
        /\ pc[p] = "done" /\ pc[q] = "done"
        /\ status_id[p] # status_id[q]
        /\ status_id[p] # Num(0) /\ status_id[q] # Num(0)

\* serialized runs: no record loaded twice, no flag written twice, records
\* loaded in strictly increasing id order, and a run finds nothing only
\* when no record with flag 0 is left
SerialOnce ==
    /\ \A k, m \in Loads : k < m => log[k].row.num < log[m].row.num
    /\ \A u, w \in Updates : log[u].row = log[w].row => u = w
    /\ \A k \in Selects :
          (k = Len(log) /\ log[k].row = None) =>
              \A i \in DOMAIN table : table[i].tweeted # Num(0)

\* C10: in serialized runs without an identifier, no record is loaded by
\* two runs, each flag is written at most once, and the records are loaded
\* in strictly increasing id order until no unpublished record remains.
C10_Lifecycle ==
    /\ \A k, m \in Loads : k < m => log[k].row.num < log[m].row.num
    /\ \A u, w \in Updates : log[u].row = log[w].row => u = w
    /\ \A k \in Selects :
          (k = Len(log) /\ log[k].row = None) =>
              \A i \in DOMAIN table : ~Unset(table[i].tweeted)

---------------------------------------------------------------------------
(* aim_camera *)

\* a whole number of floors, in tenths
Whole(n) == n * 10

\* float(v): its value, or the exception it raises
Float(v) ==
    IF v = None THEN [exc |-> "TypeError"]
    ELSE IF IsNum(v) THEN [ok |-> v.num]
    ELSE IF IsNumeral(v) THEN [ok |-> v.numeral]
    ELSE [exc |-> "ValueError"]

\* the chain of ifs of aim_camera, later ones overriding earlier ones
Aim(floors) ==
    LET a0 == <<65, 10>>
        a1 == IF floors = Whole(3) THEN <<72, a0[2]>> ELSE a0
        a2 == IF floors = Whole(4) THEN <<76, 15>> ELSE a1
        a3 == IF floors >= Whole(5) THEN <<81, 20>> ELSE a2
        a4 == IF floors = Whole(6) THEN <<86, a3[2]>> ELSE a3
        a5 == IF floors >= Whole(8) THEN <<90, 25>> ELSE a4
        a6 == IF floors >= Whole(10) THEN <<90, 30>> ELSE a5
    IN  [fov |-> a6[1], pitch |-> a6[2]]

\* float(self.lot.get('floors', 0)) or 2, except TypeError: 2
aim_camera(l) ==
    LET f == Float(IF "floors" \in DOMAIN l THEN l.floors ELSE Num(0))
    IN  IF "exc" \in DOMAIN f
        THEN IF f.exc = "TypeError" THEN Aim(Whole(2)) ELSE [raised |-> f.exc]
        ELSE Aim(IF f.ok = 0 THEN Whole(2) ELSE f.ok)

\* floor counts: every half floor from -1 to MaxFloors, as a number and as
\* a text spelling it, NULL, and texts that spell no number
FloorTenths == {t \in Whole(-1) .. Whole(MaxFloors) : t % 5 = 0}
FloorValues ==
    {Num(t) : t \in FloorTenths} \cup {Numeral(t) : t \in FloorTenths}
        \cup {None, Text(""), Text("n/a")}
CameraLots ==
    {[id |-> Num(i)] : i \in 1 .. 2}
        \cup {[id |-> Num(i), floors |-> v] : i \in 1 .. 2, v \in FloorValues}

AimCamera ==
    /\ camOut = None
    /\ camOut' = aim_camera(camLot)
    /\ UNCHANGED <<camLot, storageVars, locVars, mapVars>>

InitCamera ==
    /\ table = <<>> /\ StorageIdle /\ LocIdle /\ MapIdle
    /\ camLot \in CameraLots
    /\ camOut = None

NextCamera == AimCamera

SpecCamera == InitCamera /\ [][NextCamera]_vars

\* the table of the camera aimer, by whole floors
CameraTable(f) ==
    IF f < 3 THEN [fov |-> 65, pitch |-> 10]
    ELSE IF f = 3 THEN [fov |-> 72, pitch |-> 10]
    ELSE IF f = 4 THEN [fov |-> 76, pitch |-> 15]
    ELSE IF f = 5 THEN [fov |-> 81, pitch |-> 20]
    ELSE IF f = 6 THEN [fov |-> 86, pitch |-> 20]
    ELSE IF f = 7 THEN [fov |-> 81, pitch |-> 20]
    ELSE IF f < 10 THEN [fov |-> 90, pitch |-> 25]
    ELSE [fov |-> 90, pitch |-> 30]

\* the tenths of a floor a numeric floor count holds
Tenths(v) == IF IsNum(v) THEN v.num ELSE v.numeral

\* the lots the claim covers: the floor count is absent, NULL, not a
\* number, or a whole number (as a number or spelled)
FloorsCovered(l) ==
    "floors" \in DOMAIN l =>
        \/ l.floors = None
        \/ IsText(l.floors)
        \/ Tenths(l.floors) % 10 = 0

\* the floor count the claim reads in such a lot: 2 unless it is numeric
ClaimedFloors(l) ==
    IF "floors" \notin DOMAIN l THEN 2
    ELSE IF l.floors = None \/ IsText(l.floors) THEN 2
    ELSE Tenths(l.floors) \div 10

\* C3: for every whole-number floor count, and for an absent or non-numeric
\* one (treated as 2), aim_camera returns the (fov, pitch) of the table.
C3_CameraTable ==
    (camOut # None /\ FloorsCovered(camLot)) =>
        camOut = CameraTable(ClaimedFloors(camLot))

\* what the code does do: the table for every whole floor count float()
\* accepts and for an absent or NULL one
AimOnNumbers ==
    (camOut # None /\ FloorsCovered(camLot)
        /\ ("floors" \in DOMAIN camLot => ~IsText(camLot.floors))) =>
        camOut = CameraTable(ClaimedFloors(camLot))

---------------------------------------------------------------------------
(* streetviewable_location *)

\* d = 0.007 degrees, in thousandths of a degree
d == 7

\* search_format.format(**self.lot) raises KeyError unless the lot has
\* every field the format names
Formattable(fmt, l) == fmt \subseteq DOMAIN l

\* the text search_format.format(**self.lot) builds
FormatAddress(fmt, l) == [address |-> [f \in fmt |-> Repr(l[f])]]

\* the text '{},{}'.format(self.lot['lat'], self.lot['lon'])
FormatLatLon(l) == [latlon |-> <<Repr(l.lat), Repr(l.lon)>>]

\* mutant: the test against the southern edge left out
outside_comfort_zone_no_south(loc, minpt, maxpt) ==
    \/ loc.lng < minpt[2]
    \/ loc.lng > maxpt[2]
    \/ loc.lat > maxpt[1]

\* any((lng < minpt[1], lng > maxpt[1], lat > maxpt[0], lat < minpt[0]))
outside_comfort_zone(loc, minpt, maxpt) ==
    \/ loc.lng < minpt[2]
    \/ loc.lng > maxpt[2]
    \/ loc.lat > maxpt[1]
    \/ loc.lat < minpt[1]

\* the try block around the geocoding request: TRUE when it returns the
\* address, FALSE when anything in it raises
GeocodeConfirms(resp, minpt, maxpt) ==
    /\ "error" \notin DOMAIN resp
    /\ resp.status = 200
    /\ "results" \in DOMAIN resp.body
    /\ Len(resp.body.results) > 0
    /\ LET loc == resp.body.results[1]
       IN  /\ {"lat", "lng"} \subseteq DOMAIN loc
           /\ ~outside_comfort_zone(loc, minpt, maxpt)

\* streetviewable_location(key): its result, or the exception it lets out,
\* and the number of geocoding requests it made
streetviewable_location(fmt, l, resp) ==
    IF ~Formattable(fmt, l)
    THEN IF {"lat", "lon"} \subseteq DOMAIN l
         THEN [out |-> FormatLatLon(l), calls |-> 0]
         ELSE [out |-> [raised |-> "KeyError"], calls |-> 0]
    ELSE IF "lat" \notin DOMAIN l
    THEN [out |-> FormatAddress(fmt, l), calls |-> 0]
    ELSE IF ~IsNum(l.lat)
    THEN [out |-> [raised |-> "TypeError"], calls |-> 0]
    ELSE IF "lon" \notin DOMAIN l
    THEN [out |-> FormatAddress(fmt, l), calls |-> 0]
    ELSE IF ~IsNum(l.lon)
    THEN [out |-> [raised |-> "TypeError"], calls |-> 0]
    ELSE LET minpt == <<l.lat.num - d, l.lon.num - d>>
             maxpt == <<l.lat.num + d, l.lon.num + d>>
         IN  IF GeocodeConfirms(resp, minpt, maxpt)
             THEN [out |-> FormatAddress(fmt, l), calls |-> 1]
             ELSE [out |-> FormatLatLon(l), calls |-> 1]

\* the lots: each address field and each coordinate is a column the table
\* lacks, NULL, or a value
Optional(field, values) ==
    {<<>>} \cup {[k \in {field} |-> v] : v \in {None} \cup values}
Merge(f, g) ==
    [k \in DOMAIN f \cup DOMAIN g |-> IF k \in DOMAIN f THEN f[k] ELSE g[k]]
LocationLots ==
    {Merge(a, Merge(c, Merge(st, Merge(la, lo)))) :
        a \in Optional("address", {Text("1 Main St")}),
        c \in Optional("city", {Text("Springfield")}),
        st \in Optional("state", {Text("IL")}),
        la \in Optional("lat", {Num(40000)}),
        lo \in Optional("lon", {Num(-73000)})}

\* search_format: the default '{address}, {city} {state}', or '{address}'
SearchFormats == {{"address", "city", "state"}, {"address"}}

\* what the geocoding request can do: fail, or answer with a status and a
\* body that is no JSON, has no result, has a first result without lng, or
\* has a first result at the record's position, just inside the box around
\* it or just outside (a result exactly on an edge is left out: there the
\* rounding of lat - 0.007 decides)
Offsets == {0 - (d + 1), 0 - (d - 1), 0, d - 1, d + 1}
Bodies(lat, lon) ==
    {[notjson |-> TRUE], [results |-> <<>>], [results |-> <<[lat |-> lat]>>]}
        \cup {[results |-> <<[lat |-> lat + i, lng |-> lon + j]>>] :
                i \in Offsets, j \in Offsets}
Responses(lat, lon) ==
    {[error |-> "ConnectionError"]}
        \cup {[status |-> n, body |-> b] : n \in {200, 403}, b \in Bodies(lat, lon)}
ResponsesTo(l) ==
    IF {"lat", "lon"} \subseteq DOMAIN l /\ IsNum(l.lat) /\ IsNum(l.lon)
    THEN Responses(l.lat.num, l.lon.num)
    ELSE Responses(0, 0)

StreetviewableLocation(resp) ==
    /\ locOut = None
    /\ LET r == streetviewable_location(locFormat, locLot, resp)
       IN  /\ locOut' = r.out
           /\ locCalls' = r.calls
           /\ locResp' = IF r.calls > 0 THEN resp ELSE None
    /\ UNCHANGED <<locFormat, locLot, storageVars, camVars, mapVars>>

InitLocation ==
    /\ table = <<>> /\ StorageIdle /\ CamIdle /\ MapIdle
    /\ locFormat \in SearchFormats
    /\ locLot \in LocationLots
    /\ locResp = None
    /\ locOut = None
    /\ locCalls = 0

NextLocation == \E resp \in ResponsesTo(locLot) : StreetviewableLocation(resp)

SpecLocation == InitLocation /\ [][NextLocation]_vars

\* a field the record does not have: no such column, or NULL
Missing(l, f) == f \notin DOMAIN l \/ l[f] = None

Returned == locOut # None
Raised == "raised" \in DOMAIN locOut

\* the geocoding request answered 200 with a first result within d of the
\* record's latitude and longitude
InsideBox(resp, l) ==
    /\ DOMAIN resp = {"status", "body"}
    /\ resp.status = 200
    /\ DOMAIN resp.body = {"results"}
    /\ resp.body.results # <<>>
    /\ DOMAIN resp.body.results[1] = {"lat", "lng"}
    /\ resp.body.results[1].lat - l.lat.num \in (0 - d) .. d
    /\ resp.body.results[1].lng - l.lon.num \in (0 - d) .. d

\* C4: for a record with a formattable address and lat/lon, the result is
\* the formatted address exactly when the geocoding request answers 200
\* with a first result inside the box of +/-0.007 degrees; in every other
\* outcome it is the "lat,lon" text; it never raises.
C4_GeocodeConfirmation ==
    (/\ Returned
     /\ \A f \in locFormat \cup {"lat", "lon"} : ~Missing(locLot, f)) =>
        /\ ~Raised
        /\ locCalls = 1
        /\ InsideBox(locResp, locLot) => locOut = FormatAddress(locFormat, locLot)
        /\ ~InsideBox(locResp, locLot) => locOut = FormatLatLon(locLot)
        /\ FormatAddress(locFormat, locLot) # FormatLatLon(locLot)

\* C4 witness: a result just inside the south-east corner of the box was
\* accepted for a record with the three address fields.
C4_JustInside ==
    /\ Returned
    /\ locCalls = 1
    /\ locFormat = {"address", "city", "state"}
    /\ InsideBox(locResp, locLot)
    /\ locResp.body.results[1].lat = locLot.lat.num - (d - 1)
    /\ locResp.body.results[1].lng = locLot.lon.num + (d - 1)
    /\ locOut = FormatAddress(locFormat, locLot)

\* C5: for every record missing a field the address format names, the
\* result is the "lat,lon" text, nothing is raised and no geocoding
\* request is made.
C5_NoAddress ==
    (Returned /\ \E f \in locFormat : Missing(locLot, f)) =>
        /\ ~Raised
        /\ locCalls = 0
        /\ {"lat", "lon"} \subseteq DOMAIN locLot
        /\ locOut = FormatLatLon(locLot)

\* C6: for every record with all its address fields and no lat/lon, the
\* result is the formatted address and no geocoding request is made.
C6_NoCoordinates ==
    (/\ Returned
     /\ \A f \in locFormat : ~Missing(locLot, f)
     /\ Missing(locLot, "lat") /\ Missing(locLot, "lon")) =>
        /\ ~Raised
        /\ locCalls = 0
        /\ locOut = FormatAddress(locFormat, locLot)

\* what the code does do without an address column
NoAddressColumn ==
    (/\ Returned
     /\ ~(locFormat \subseteq DOMAIN locLot)
     /\ {"lat", "lon"} \subseteq DOMAIN locLot) =>
        locCalls = 0 /\ locOut = FormatLatLon(locLot)

\* what the code does do without a lat column
NoLatColumn ==
    (/\ Returned
     /\ locFormat \subseteq DOMAIN locLot
     /\ "lat" \notin DOMAIN locLot) =>
        locCalls = 0 /\ locOut = FormatAddress(locFormat, locLot)

---------------------------------------------------------------------------
(* get_maps_image: the overlay paths *)

\* a closed square ring of (lng, lat) pairs
Square(x, y, side) ==
    <<<<x, y>>, <<x + side, y>>, <<x + side, y + side>>, <<x, y + side>>, <<x, y>>>>

\* polygon k with n holes: its outer ring, then its holes
OuterRing(k) == Square(100 * k, 0, 10)
HoleRing(k, h) == Square(100 * k + 2 * h, 2, 1)
PolygonRings(k, n) == [r \in 1 .. n + 1 |-> IF r = 1 THEN OuterRing(k) ELSE HoleRing(k, r - 1)]

\* shapely.geometry.mapping(shape) of the stored geometries
Shapes ==
    {[type |-> "Polygon", coordinates |-> PolygonRings(k, n)] :
        k \in 1 .. MaxPolys, n \in 0 .. MaxHoles}
    \cup {[type |-> "MultiPolygon",
           coordinates |-> [k \in 1 .. Len(holes) |-> PolygonRings(k, holes[k])]] :
        holes \in UNION {[1 .. m -> 0 .. MaxHoles] : m \in 1 .. MaxPolys}}
    \cup {[type |-> "Point", coordinates |-> <<1, 2>>],
          [type |-> "LineString", coordinates |-> <<<<1, 2>>, <<3, 4>>>>]}

\* StaticMapPath(points=[{"lat": lat, "lng": lng} for lng, lat in polygon])
StaticMapPath(polygon) ==
    [points |-> [k \in 1 .. Len(polygon) |-> [lat |-> polygon[k][2], lng |-> polygon[k][1]]]]

\* get_maps_image up to the paths it hands to static_map
get_maps_image(parcel) ==
    IF parcel.type = "Polygon"
    THEN [paths |-> [k \in 1 .. Len(parcel.coordinates) |->
                        StaticMapPath(parcel.coordinates[k])]]
    ELSE IF parcel.type = "MultiPolygon"
    THEN [paths |-> [k \in 1 .. Len(parcel.coordinates) |->
                        StaticMapPath(parcel.coordinates[k][1])]]
    ELSE [raised |-> "ValueError"]

GetMapsImage ==
    /\ mapOut = None
    /\ mapOut' = get_maps_image(mapShape)
    /\ UNCHANGED <<mapShape, storageVars, camVars, locVars>>

InitMaps ==
    /\ table = <<>> /\ StorageIdle /\ CamIdle /\ LocIdle
    /\ mapShape \in Shapes
    /\ mapOut = None

NextMaps == GetMapsImage

SpecMaps == InitMaps /\ [][NextMaps]_vars

\* the polygons of a shape, each a sequence of rings
PolygonsOf(shape) ==
    IF shape.type = "Polygon" THEN <<shape.coordinates>> ELSE shape.coordinates

Range(f) == {f[x] : x \in DOMAIN f}

\* the (lng, lat) pairs of the holes of a shape
HolePoints(shape) ==
    LET polys == PolygonsOf(shape)
    IN  UNION {UNION {Range(polys[k][r]) : r \in 2 .. Len(polys[k])} :
                  k \in 1 .. Len(polys)}

\* the points of the paths
PathPoints(paths) == UNION {Range(paths[k].points) : k \in 1 .. Len(paths)}

\* C8: for a polygon or a multi-polygon, the overlay paths are exactly the
\* outer ring of each (sub-)polygon, one path per polygon, and no
\* coordinate of a hole appears in them.
C8_OuterRingsOnly ==
    (mapOut # None /\ mapShape.type \in {"Polygon", "MultiPolygon"}) =>
        LET polys == PolygonsOf(mapShape)
        IN  /\ DOMAIN mapOut = {"paths"}
            /\ Len(mapOut.paths) = Len(polys)
            /\ \A k \in 1 .. Len(polys) :
                  mapOut.paths[k] = StaticMapPath(polys[k][1])
            /\ \A h \in HolePoints(mapShape) :
                  [lat |-> h[2], lng |-> h[1]] \notin PathPoints(mapOut.paths)

====
